---- MODULE Spec2Model ----
(***************************************************************************)
(* Gameplay controller of the RetroTrivia front end                        *)
(* (src/trivia_frontend/src/App.js) together with the fetch wrapper        *)
(* (src/trivia_frontend/src/api/client.js) and the API surface             *)
(* (src/unnamed/part_000).                                                 *)
(*                                                                         *)
(* React state hooks are the variables.  A handler runs up to its first    *)
(* await of a real network call in one step; the arrival of the response   *)
(* (or of the error) is a second step that runs the continuation up to the *)
(* next real call or to the end of the handler.  The values a handler      *)
(* closes over at invocation (score, questionNumber, totalQuestions,       *)
(* question.id) travel with the in-flight request.  The mock functions are *)
(* synchronous, so a fallback runs inside the step that receives the       *)
(* error.  abortRef is never handed to apiRequest (no caller passes        *)
(* `signal`), so aborting it has no effect and it is not a variable.       *)
(*                                                                         *)
(* JS null / undefined is the empty tuple; a present value v is <<v>>.     *)
(***************************************************************************)
EXTENDS Integers, Sequences, FiniteSets, TLC

VARIABLES view, playerName, gameStarted, question, selectedIndex,
          answerResult, score, questionNumber, totalQuestions, gameOver,
          loading, error, usingMockBackend,
          pending,          \* handler instances awaiting a network response, in issue order
          sawQuestion404,   \* history: GET /game/question answered 404 in this session
          realGraded,       \* history: the backend graded an answer of this session
          ev,               \* history: the last event and its outcome
          script,           \* history: position in the end-to-end script, 0 when off it
          mockAnswers,      \* history: the answers graded in this session while every
                            \* call since its start fell back to the mock; else -1
          adminQuestions, adminLoading, adminError,
          adminPending,     \* admin handler instances awaiting a network response
          form,             \* the state of AdminCreateForm
          getArg, getRet,   \* an application of mockGetQuestion: argument and result
          api,              \* one invocation of apiRequest
          raw, readBy       \* a question response, and the handler that has read it

vars == <<view, playerName, gameStarted, question, selectedIndex,
          answerResult, score, questionNumber, totalQuestions, gameOver,
          loading, error, usingMockBackend, pending, sawQuestion404,
          realGraded, ev, script, mockAnswers, adminQuestions, adminLoading, adminError,
          adminPending, form, getArg, getRet, api, raw, readBy>>

\* the state of the admin console, and of an application of mockGetQuestion
adminVars == <<adminQuestions, adminLoading, adminError, adminPending, form>>
mockVars == <<getArg, getRet>>
normVars == <<raw, readBy>>

history == <<sawQuestion404, realGraded>>

session == <<gameStarted, question, selectedIndex, answerResult, score,
             questionNumber, totalQuestions, gameOver>>

----------------------------------------------------------------------------
(* Bounds *)

MaxQn == 4          \* largest question number the backend reports
MaxScore == 4       \* the score is not driven past this value

----------------------------------------------------------------------------
(* JS values *)

Null == << >>
Undefined == << >>
Some(v) == <<v>>
Val(o) == o[1]

\* a ?? b
Coalesce(a, b) == IF a # Undefined THEN a ELSE b

\* a || b for strings: the empty string is falsy
OrStr(a, b) == IF a # Undefined /\ Val(a) # "" THEN a ELSE b

\* a || b for arrays: every array is truthy
OrArr(a, b) == IF a # Undefined THEN a ELSE b

\* !!x for an optional boolean
Truthy(o) == o # Undefined /\ Val(o)

Max(a, b) == IF a >= b THEN a ELSE b
Min(a, b) == IF a <= b THEN a ELSE b

clamp(n, min, max) == Max(min, Min(max, n))

----------------------------------------------------------------------------
(* Mock data *)

MOCK_QUESTIONS ==
  << [id |-> "q1", prompt |-> "CRT?",
      choices |-> <<"Cathode-Ray Tube", "Core Runtime", "Color Render Technique", "Circuit Relay Trigger">>,
      correctIndex |-> 0, explanation |-> "CRT stands for Cathode-Ray Tube"],
     [id |-> "q2", prompt |-> "Neon?",
      choices |-> <<"Beige", "Neon Cyan", "Olive", "Brown">>,
      correctIndex |-> 1, explanation |-> "Neon cyan"],
     [id |-> "q3", prompt |-> "Input?",
      choices |-> <<"Touchscreen", "Mouse", "Joystick + buttons", "Voice commands">>,
      correctIndex |-> 2, explanation |-> "Joystick + buttons"] >>

MockLen == Len(MOCK_QUESTIONS)

\* MOCK_QUESTIONS.find((x) => x.id === questionId) || MOCK_QUESTIONS[0]
MockFind(questionId) ==
  IF \E i \in 1..MockLen : MOCK_QUESTIONS[i].id = questionId
  THEN MOCK_QUESTIONS[CHOOSE i \in 1..MockLen :
          /\ MOCK_QUESTIONS[i].id = questionId
          /\ \A j \in 1..(i - 1) : MOCK_QUESTIONS[j].id # questionId]
  ELSE MOCK_QUESTIONS[1]

MockIds == {MOCK_QUESTIONS[i].id : i \in 1..MockLen}

\* the correct index stored with the mock question of this id
StoredCorrectIndex(id) ==
  MOCK_QUESTIONS[CHOOSE i \in 1..MockLen : MOCK_QUESTIONS[i].id = id].correctIndex

\* a question body that spells its fields id, prompt, choices,
\* total_questions and question_number; the other spellings are absent
QuestionBody(id, prompt, choices, total_questions, question_number) ==
  [id |-> id, question_id |-> Undefined, questionId |-> Undefined,
   prompt |-> prompt, question |-> Undefined, text |-> Undefined,
   choices |-> choices, options |-> Undefined,
   total_questions |-> total_questions, totalQuestions |-> Undefined,
   question_number |-> question_number, questionNumber |-> Undefined]

\* the position taken as the zero-based index
mockGetQuestion_NoOffset(currentNumber) ==
  LET n   == IF currentNumber = 0 THEN 1 ELSE currentNumber
      idx == clamp(n, 0, MockLen - 1)
      q   == MOCK_QUESTIONS[idx + 1]
  IN  QuestionBody(Some(q.id), Some(q.prompt), Some(q.choices),
                   Some(MockLen), Some(idx + 1))

\* mockGetQuestion(currentNumber); (currentNumber || 1): 0 is falsy
mockGetQuestion(currentNumber) ==
  LET n   == IF currentNumber = 0 THEN 1 ELSE currentNumber
      idx == clamp(n - 1, 0, MockLen - 1)
      q   == MOCK_QUESTIONS[idx + 1]
  IN  QuestionBody(Some(q.id), Some(q.prompt), Some(q.choices),
                   Some(MockLen), Some(idx + 1))

\* the grading with the selected index taken as 1-based
mockSubmitAnswer_OneBased(questionId, selectedIdx, cScore, cQn) ==
  LET q       == MockFind(questionId)
      correct == selectedIdx = q.correctIndex + 1
      isLast  == cQn >= MockLen
  IN  [correct |-> Some(correct), correctIndex |-> Some(q.correctIndex),
       explanation |-> Some(q.explanation),
       score |-> Some(cScore + (IF correct THEN 1 ELSE 0)),
       questionNumber |-> Some(cQn), totalQuestions |-> Some(MockLen),
       gameOver |-> Some(isLast)]

\* the grading with the last question recognised by equality only
mockSubmitAnswer_LastByEquality(questionId, selectedIdx, cScore, cQn) ==
  LET q       == MockFind(questionId)
      correct == selectedIdx = q.correctIndex
      isLast  == cQn = MockLen
  IN  [correct |-> Some(correct), correctIndex |-> Some(q.correctIndex),
       explanation |-> Some(q.explanation),
       score |-> Some(cScore + (IF correct THEN 1 ELSE 0)),
       questionNumber |-> Some(cQn), totalQuestions |-> Some(MockLen),
       gameOver |-> Some(isLast)]

\* mockSubmitAnswer(questionId, selectedIdx), reading score and
\* questionNumber of the render the handler was created in
mockSubmitAnswer(questionId, selectedIdx, cScore, cQn) ==
  LET q       == MockFind(questionId)
      correct == selectedIdx = q.correctIndex
      isLast  == cQn >= MockLen
  IN  [correct |-> Some(correct), correctIndex |-> Some(q.correctIndex),
       explanation |-> Some(q.explanation),
       score |-> Some(cScore + (IF correct THEN 1 ELSE 0)),
       questionNumber |-> Some(cQn), totalQuestions |-> Some(MockLen),
       gameOver |-> Some(isLast)]

----------------------------------------------------------------------------
(* Errors thrown by apiRequest.  status 0 stands for an error object      *)
(* without a status (fetch rejection, timeout).                           *)

HttpError(status, message) == [status |-> status, message |-> message]

\* the abort reason of the per-request timer
TimeoutError == [status |-> 0, message |-> "Request timed out"]

\* the messages of the errors the model draws, and the patterns of
\* tryBackendOrMock each one contains (case-insensitive search)
MatchesFailedToFetch(msg) == msg \in {"Failed to fetch"}
MatchesNetworkError(msg) == msg \in {"NetworkError when attempting to fetch resource."}
MatchesCORS(msg) == msg \in {"Blocked by cors policy"}

ApiErrors ==
  { HttpError(404, "Not Found"),
    HttpError(405, "Method Not Allowed"),
    HttpError(500, "Internal Server Error"),
    HttpError(502, "Blocked by cors policy"),
    HttpError(0, "Failed to fetch"),
    HttpError(0, "NetworkError when attempting to fetch resource."),
    TimeoutError }

NoError == [status |-> 0, message |-> ""]

\* the test with the 405 case forgotten
looksLikeMissingEndpoint_No405(e) ==
  \/ e.status = 404
  \/ MatchesFailedToFetch(e.message)
  \/ MatchesNetworkError(e.message)
  \/ MatchesCORS(e.message)

\* tryBackendOrMock: the catch clause's test
looksLikeMissingEndpoint(e) ==
  \/ e.status = 404
  \/ e.status = 405
  \/ MatchesFailedToFetch(e.message)
  \/ MatchesNetworkError(e.message)
  \/ MatchesCORS(e.message)

\* e?.message || fallback
ErrorText(e, fallback) == IF e.message # "" THEN e.message ELSE fallback

----------------------------------------------------------------------------
(* Responses of the real backend: bodies of 2xx answers, drawn from small *)
(* sets.  A field that the body lacks is Undefined.                       *)

BackendIds == {"q2", "r9"}
BackendChoices == <<"A", "B">>
BackendTotals == {5}

QuestionBodies ==
  [id : {Undefined} \cup {Some(i) : i \in BackendIds},
   question_id : {Undefined}, questionId : {Undefined},
   prompt : {Some("Backend prompt")},
   question : {Undefined}, text : {Undefined},
   choices : {Undefined, Some(BackendChoices)},
   options : {Undefined},
   total_questions : {Undefined} \cup {Some(t) : t \in BackendTotals},
   totalQuestions : {Undefined},
   question_number : {Undefined} \cup {Some(n) : n \in 1..MaxQn},
   questionNumber : {Undefined}]

\* the answer bodies the backend may send when the client's score is s
AnswerBodies(s) ==
  [correct : {Undefined, Some(TRUE)},
   correctIndex : {Undefined},
   explanation : {Undefined},
   score : {Undefined} \cup (IF s < MaxScore THEN {Some(s + 1)} ELSE {}),
   questionNumber : {Undefined},
   totalQuestions : {Undefined} \cup {Some(t) : t \in BackendTotals},
   gameOver : {Undefined, Some(TRUE)}]

----------------------------------------------------------------------------
(* Response normalisation *)

\* setQuestion({ id: q.id || ... || "unknown", prompt: ... || "Question",
\*               choices: q.choices || q.options || [] })
NormalizeQuestion(q) ==
  [id |-> Val(OrStr(q.id, OrStr(q.question_id, OrStr(q.questionId, Some("unknown"))))),
   prompt |-> Val(OrStr(q.prompt, OrStr(q.question, OrStr(q.text, Some("Question"))))),
   choices |-> Val(OrArr(q.choices, OrArr(q.options, Some(<< >>))))]

\* the total read with ||, which skips a 0
tn_ZeroIsFalsy(q) ==
  IF q.total_questions # Undefined /\ Val(q.total_questions) # 0
  THEN q.total_questions ELSE q.totalQuestions

\* q.total_questions ?? q.totalQuestions
tn(q) == Coalesce(q.total_questions, q.totalQuestions)

\* q.question_number ?? q.questionNumber
qn(q) == Coalesce(q.question_number, q.questionNumber)

\* the `normalized` object of handleSelectAnswer
NormalizeAnswer(result, cScore, cQn, cTotal) ==
  [correct |-> Truthy(result.correct),
   correctIndex |-> Val(Coalesce(result.correctIndex, Some(0))),
   explanation |-> Val(Coalesce(result.explanation, Some(""))),
   score |-> Val(Coalesce(result.score, Some(cScore))),
   questionNumber |-> Val(Coalesce(result.questionNumber, Some(cQn))),
   totalQuestions |-> Val(Coalesce(result.totalQuestions, Some(cTotal))),
   gameOver |-> Truthy(result.gameOver)]

----------------------------------------------------------------------------
(* In-flight handler instances and the event history *)

\* op: "start" | "answer" | "next"; step: which await of the handler;
\* idx, qid, cScore, cQn, cTotal: the values the handler closed over
Req(op, step, idx, qid, cScore, cQn, cTotal) ==
  [op |-> op, step |-> step, idx |-> idx, qid |-> qid,
   cScore |-> cScore, cQn |-> cQn, cTotal |-> cTotal]

\* the in-flight list without its i-th entry
RemoveAt(seq, i) == SubSeq(seq, 1, i - 1) \o SubSeq(seq, i + 1, Len(seq))

\* out: "issued" | "ignored" | "local" | "real" | "mock" | "error"
Ev(op, out, idx, err, rqn) ==
  [op |-> op, out |-> out, idx |-> idx, err |-> err, rqn |-> rqn]

PlayerNames == {"Player 1", "  "}

\* playerName.trim()
Trim(name) == IF name = "  " THEN "" ELSE name

----------------------------------------------------------------------------
PlayInit ==
  /\ playerName = "Player 1"
  /\ gameStarted = FALSE
  /\ question = Null
  /\ selectedIndex = Null
  /\ answerResult = Null
  /\ score = 0
  /\ questionNumber = 0
  /\ totalQuestions = MockLen
  /\ gameOver = FALSE
  /\ loading = FALSE
  /\ error = ""
  /\ usingMockBackend = FALSE
  /\ pending = << >>
  /\ sawQuestion404 = FALSE
  /\ realGraded = FALSE
  /\ ev = Ev("init", "local", -1, NoError, Undefined)
  /\ script = 0
  /\ mockAnswers = 0 - 1

----------------------------------------------------------------------------
(* What the play view renders, and which controls are disabled *)

\* <button onClick={handleStartGame} disabled={loading || !playerName.trim()}>
StartRendered == view = "play" /\ ~gameStarted
StartDisabled == loading \/ Trim(playerName) = ""

\* the choice buttons: question.choices.map(...)
ChoiceRendered(idx) ==
  /\ view = "play" /\ gameStarted /\ question # Null
  /\ idx \in 0..(Len(Val(question).choices) - 1)

\* the feedback block, with the Next and Restart buttons
showFeedback == answerResult # Null
FeedbackRendered == view = "play" /\ gameStarted /\ question # Null /\ showFeedback
RestartDisabled == loading

\* the "Run complete" block, with the Play Again button
PlayAgainRendered == view = "play" /\ gameStarted /\ question # Null /\ gameOver
PlayAgainDisabled == loading

\* the early return without the lock on an existing selection
SelectIgnored_NoLock == question = Null \/ loading \/ gameOver

\* the early return without the test of the loading flag
SelectIgnored_NoLoading == question = Null \/ selectedIndex # Null \/ gameOver

\* handleSelectAnswer's early return.  The button's own
\* disabled={loading || locked || gameOver} is implied by it.
SelectIgnored == question = Null \/ loading \/ selectedIndex # Null \/ gameOver

\* the early return without the test of the loading flag
NextIgnored_NoLoading == answerResult = Null

\* handleNext's early return
NextIgnored == answerResult = Null \/ loading

Ignored(op, idx) ==
  /\ ev' = Ev(op, "ignored", idx, NoError, Undefined)
  /\ UNCHANGED <<view, playerName, session, loading, error, usingMockBackend,
                 pending, history>>

----------------------------------------------------------------------------
(* handleStartGame *)

----------------------------------------------------------------------------
(* The end-to-end script against the mock provider: start, question 1,
   a wrong pick, advance, question 2, the right pick, advance, advance
   again, a wrong pick on question 3, advance.  script is the number of
   its steps taken so far; any other event leaves the script. *)
WrongPick(e) ==
  /\ e.op = "select" /\ e.out = "issued"
  /\ question # Null /\ Val(question).id \in MockIds
  /\ e.idx # StoredCorrectIndex(Val(question).id)

RightPick(e) ==
  /\ e.op = "select" /\ e.out = "issued"
  /\ question # Null /\ Val(question).id \in MockIds
  /\ e.idx = StoredCorrectIndex(Val(question).id)

ScriptStep(k, e) ==
  CASE k = 1 -> e.op = "start" /\ e.out = "issued"
    [] k = 2 -> e.op = "startSession" /\ e.out = "mock"
    [] k = 3 -> e.op = "startQuestion" /\ e.out = "mock"
    [] k = 4 -> WrongPick(e)
    [] k = 5 -> e.op = "submitDone" /\ e.out = "mock"
    [] k = 6 -> e.op = "next" /\ e.out = "issued"
    [] k = 7 -> e.op = "nextDone" /\ e.out = "mock"
    [] k = 8 -> RightPick(e)
    [] k = 9 -> e.op = "submitDone" /\ e.out = "mock"
    [] k = 10 -> e.op = "next" /\ e.out = "issued"
    [] k = 11 -> e.op = "nextDone" /\ e.out = "mock"
    [] k = 12 -> e.op = "next"
    [] k = 13 -> WrongPick(e)
    [] k = 14 -> e.op = "submitDone" /\ e.out = "mock"
    [] k = 15 -> e.op = "next"
    [] OTHER -> FALSE

ScriptAfter ==
  IF ScriptStep(script + 1, ev') THEN script + 1
  ELSE IF ScriptStep(1, ev') THEN 1 ELSE 0

\* the count of answers of a session served by the mock provider alone:
\* 0 when a start is issued, one more with every answer the mock grades,
\* and -1 once a call is answered by the backend or ends in a shown error,
\* or the game is restarted
AnswersAfter ==
  IF ev'.op \in {"start", "playAgain"} /\ ev'.out = "issued" THEN 0
  ELSE IF ev'.out \in {"real", "error"} \/ ev'.op = "restart" THEN 0 - 1
  ELSE IF ev'.op = "submitDone" /\ ev'.out = "mock" /\ mockAnswers >= 0
       THEN mockAnswers + 1
  ELSE mockAnswers

\* what every step of the play view leaves alone
PlayFrame ==
  /\ script' = ScriptAfter
  /\ mockAnswers' = AnswersAfter
  /\ UNCHANGED <<adminVars, mockVars, api, normVars>>

handleStartGame(op) ==
  /\ error' = ""
  /\ loading' = TRUE
  /\ pending' = Append(pending, Req("start", 1, -1, "", 0, 0, 0))
  /\ sawQuestion404' = FALSE
  /\ realGraded' = FALSE
  /\ ev' = Ev(op, "issued", -1, NoError, Undefined)
  /\ UNCHANGED <<view, playerName, session, usingMockBackend>>

ClickStart ==
  /\ StartRendered
  /\ IF StartDisabled THEN Ignored("start", -1) ELSE handleStartGame("start")
  /\ PlayFrame

ClickPlayAgain ==
  /\ PlayAgainRendered
  /\ IF PlayAgainDisabled THEN Ignored("playAgain", -1) ELSE handleStartGame("playAgain")
  /\ PlayFrame

\* mockStart without setGameOver(false)
mockStart_KeepsGameOver ==
  /\ score' = 0
  /\ questionNumber' = 1
  /\ totalQuestions' = MockLen
  /\ question' = Some([id |-> MOCK_QUESTIONS[1].id, prompt |-> MOCK_QUESTIONS[1].prompt,
                       choices |-> MOCK_QUESTIONS[1].choices])
  /\ selectedIndex' = Null
  /\ answerResult' = Null
  /\ gameOver' = gameOver
  /\ gameStarted' = TRUE

\* function mockStart()
mockStart ==
  /\ score' = 0
  /\ questionNumber' = 1
  /\ totalQuestions' = MockLen
  /\ question' = Some([id |-> MOCK_QUESTIONS[1].id, prompt |-> MOCK_QUESTIONS[1].prompt,
                       choices |-> MOCK_QUESTIONS[1].choices])
  /\ selectedIndex' = Null
  /\ answerResult' = Null
  /\ gameOver' = FALSE
  /\ gameStarted' = TRUE

\* the catch of a gameplay handler without the finally block
HandlerFails_KeepsLoading(i, e, fallback) ==
  /\ error' = ErrorText(e, fallback)
  /\ loading' = loading
  /\ pending' = RemoveAt(pending, i)

\* the catch/finally of a gameplay handler
HandlerFails(i, e, fallback) ==
  /\ error' = ErrorText(e, fallback)
  /\ loading' = FALSE
  /\ pending' = RemoveAt(pending, i)

\* the response to POST /game/start arrives
StartSessionDone ==
  \E i \in 1..Len(pending) : LET r == pending[i] IN
    /\ r.op = "start" /\ r.step = 1
    /\ \/ \* 2xx: the body is not read; go on to getCurrentQuestion()
          /\ pending' = [pending EXCEPT ![i] = [r EXCEPT !.step = 2]]
          /\ ev' = Ev("startSession", "real", -1, NoError, Undefined)
          /\ UNCHANGED <<view, playerName, session, loading, error,
                         usingMockBackend, history>>
       \/ \E e \in ApiErrors :
            IF looksLikeMissingEndpoint(e)
            THEN /\ usingMockBackend' = TRUE
                 /\ mockStart
                 /\ pending' = [pending EXCEPT ![i] = [r EXCEPT !.step = 2]]
                 /\ ev' = Ev("startSession", "mock", -1, e, Undefined)
                 /\ UNCHANGED <<view, playerName, loading, error, history>>
            ELSE /\ HandlerFails(i, e, "Unable to start game")
                 /\ ev' = Ev("startSession", "error", -1, e, Undefined)
                 /\ UNCHANGED <<view, playerName, session, usingMockBackend,
                                history>>
    /\ PlayFrame

\* the start without setScore(0)
StartLoads_KeepScore(q) ==
  /\ question' = Some(NormalizeQuestion(q))
  /\ totalQuestions' = Val(Coalesce(tn(q), Some(MockLen)))
  /\ questionNumber' = Val(Coalesce(qn(q), Some(1)))
  /\ score' = score
  /\ selectedIndex' = Null
  /\ answerResult' = Null
  /\ gameOver' = FALSE
  /\ gameStarted' = TRUE

\* lines 177-192 of handleStartGame, q being the question body
StartLoads(q) ==
  /\ question' = Some(NormalizeQuestion(q))
  /\ totalQuestions' = Val(Coalesce(tn(q), Some(MockLen)))
  /\ questionNumber' = Val(Coalesce(qn(q), Some(1)))
  /\ score' = 0
  /\ selectedIndex' = Null
  /\ answerResult' = Null
  /\ gameOver' = FALSE
  /\ gameStarted' = TRUE

\* the response to the GET /game/question of handleStartGame arrives
StartQuestionDone ==
  \E i \in 1..Len(pending) : LET r == pending[i] IN
    /\ r.op = "start" /\ r.step = 2
    /\ \/ \E q \in QuestionBodies :
            /\ StartLoads(q)
            /\ loading' = FALSE
            /\ pending' = RemoveAt(pending, i)
            /\ ev' = Ev("startQuestion", "real", -1, NoError, qn(q))
            /\ UNCHANGED <<view, playerName, error, usingMockBackend, history>>
       \/ \E e \in ApiErrors :
            /\ sawQuestion404' = (sawQuestion404 \/ e.status = 404)
            /\ realGraded' = realGraded
            /\ IF looksLikeMissingEndpoint(e)
               THEN /\ usingMockBackend' = TRUE
                    /\ StartLoads(mockGetQuestion(1))
                    /\ loading' = FALSE
                    /\ pending' = RemoveAt(pending, i)
                    /\ ev' = Ev("startQuestion", "mock", -1, e, Undefined)
                    /\ UNCHANGED <<view, playerName, error>>
               ELSE /\ HandlerFails(i, e, "Unable to start game")
                    /\ ev' = Ev("startQuestion", "error", -1, e, Undefined)
                    /\ UNCHANGED <<view, playerName, session, usingMockBackend>>
    /\ PlayFrame

----------------------------------------------------------------------------
(* handleSelectAnswer *)

handleSelectAnswer(idx) ==
  /\ ChoiceRendered(idx)
  /\ IF SelectIgnored
     THEN Ignored("select", idx)
     ELSE /\ error' = ""
          /\ loading' = TRUE
          /\ selectedIndex' = Some(idx)
          /\ pending' = Append(pending,
                Req("answer", 1, idx, Val(question).id, score, questionNumber, totalQuestions))
          /\ ev' = Ev("select", "issued", idx, NoError, Undefined)
          /\ UNCHANGED <<view, playerName, gameStarted, question, answerResult, score,
                         questionNumber, totalQuestions, gameOver, usingMockBackend,
                         history>>
  /\ PlayFrame

\* the result stored without setGameOver(normalized.gameOver)
SubmitLoads_NoGameOver(r, result) ==
  LET normalized == NormalizeAnswer(result, r.cScore, r.cQn, r.cTotal)
  IN  /\ answerResult' = Some(normalized)
      /\ score' = normalized.score
      /\ totalQuestions' = normalized.totalQuestions
      /\ gameOver' = gameOver

\* lines 216-229 of handleSelectAnswer
SubmitLoads(r, result) ==
  LET normalized == NormalizeAnswer(result, r.cScore, r.cQn, r.cTotal)
  IN  /\ answerResult' = Some(normalized)
      /\ score' = normalized.score
      /\ totalQuestions' = normalized.totalQuestions
      /\ gameOver' = normalized.gameOver

\* the response to POST /game/answer arrives
SubmitDone ==
  \E i \in 1..Len(pending) : LET r == pending[i] IN
    /\ r.op = "answer"
    /\ \/ \E result \in AnswerBodies(r.cScore) :
            /\ SubmitLoads(r, result)
            /\ loading' = FALSE
            /\ pending' = RemoveAt(pending, i)
            /\ realGraded' = TRUE
            /\ ev' = Ev("submitDone", "real", r.idx, NoError, Undefined)
            /\ UNCHANGED <<view, playerName, gameStarted, question, selectedIndex,
                           questionNumber, error, usingMockBackend, sawQuestion404>>
       \/ \E e \in ApiErrors :
            IF looksLikeMissingEndpoint(e)
            THEN /\ Val(mockSubmitAnswer(r.qid, r.idx, r.cScore, r.cQn).score) <= MaxScore
                 /\ usingMockBackend' = TRUE
                 /\ SubmitLoads(r, mockSubmitAnswer(r.qid, r.idx, r.cScore, r.cQn))
                 /\ loading' = FALSE
                 /\ pending' = RemoveAt(pending, i)
                 /\ ev' = Ev("submitDone", "mock", r.idx, e, Undefined)
                 /\ UNCHANGED <<view, playerName, gameStarted, question, selectedIndex,
                                questionNumber, error, history>>
            ELSE /\ selectedIndex' = Null
                 /\ HandlerFails(i, e, "Unable to submit answer")
                 /\ ev' = Ev("submitDone", "error", r.idx, e, Undefined)
                 /\ UNCHANGED <<view, playerName, gameStarted, question, answerResult, score,
                                questionNumber, totalQuestions, gameOver, usingMockBackend,
                                history>>
    /\ PlayFrame

----------------------------------------------------------------------------
(* handleNext *)

handleNext ==
  /\ FeedbackRendered
  /\ IF NextIgnored
     THEN Ignored("next", -1)
     ELSE IF Val(answerResult).gameOver
     THEN \* stay on game over view
          /\ gameOver' = TRUE
          /\ ev' = Ev("next", "local", -1, NoError, Undefined)
          /\ UNCHANGED <<view, playerName, gameStarted, question, selectedIndex,
                         answerResult, score, questionNumber, totalQuestions, loading,
                         error, usingMockBackend, pending, history>>
     ELSE /\ error' = ""
          /\ loading' = TRUE
          /\ pending' = Append(pending,
                Req("next", 1, -1, "", 0, questionNumber, totalQuestions))
          /\ ev' = Ev("next", "issued", -1, NoError, Undefined)
          /\ UNCHANGED <<view, playerName, session, usingMockBackend, history>>
  /\ PlayFrame

\* the next number without the increment
nextNumber_NoIncrement(r) == r.cQn

\* const nextNumber = questionNumber + 1
nextNumber(r) == r.cQn + 1

\* lines 260-273 of handleNext
\* the new question loaded without clearing the feedback
NextLoads_KeepsResult(r, q) ==
  /\ question' = Some(NormalizeQuestion(q))
  /\ totalQuestions' = Val(Coalesce(tn(q), Some(r.cTotal)))
  /\ questionNumber' = Val(Coalesce(qn(q), Some(nextNumber(r))))
  /\ selectedIndex' = Null
  /\ UNCHANGED answerResult
  /\ gameOver' = FALSE

NextLoads(r, q) ==
  /\ question' = Some(NormalizeQuestion(q))
  /\ totalQuestions' = Val(Coalesce(tn(q), Some(r.cTotal)))
  /\ questionNumber' = Val(Coalesce(qn(q), Some(nextNumber(r))))
  /\ selectedIndex' = Null
  /\ answerResult' = Null
  /\ gameOver' = FALSE

\* the response to the GET /game/question of handleNext arrives
NextDone ==
  \E i \in 1..Len(pending) : LET r == pending[i] IN
    /\ r.op = "next"
    /\ \/ \E q \in QuestionBodies :
            /\ qn(q) # Undefined \/ nextNumber(r) <= MaxQn
            /\ NextLoads(r, q)
            /\ loading' = FALSE
            /\ pending' = RemoveAt(pending, i)
            /\ ev' = Ev("nextDone", "real", -1, NoError, qn(q))
            /\ UNCHANGED <<view, playerName, gameStarted, score, error,
                           usingMockBackend, history>>
       \/ \E e \in ApiErrors :
            /\ sawQuestion404' = (sawQuestion404 \/ e.status = 404)
            /\ realGraded' = realGraded
            /\ IF looksLikeMissingEndpoint(e)
               THEN /\ usingMockBackend' = TRUE
                    /\ NextLoads(r, mockGetQuestion(nextNumber(r)))
                    /\ loading' = FALSE
                    /\ pending' = RemoveAt(pending, i)
                    /\ ev' = Ev("nextDone", "mock", -1, e, Undefined)
                    /\ UNCHANGED <<view, playerName, gameStarted, score, error>>
               ELSE /\ HandlerFails(i, e, "Unable to load next question")
                    /\ ev' = Ev("nextDone", "error", -1, e, Undefined)
                    /\ UNCHANGED <<view, playerName, session, usingMockBackend>>
    /\ PlayFrame

----------------------------------------------------------------------------
(* The Restart button, the view switch and the player-name input *)

\* the Restart button without setError("")
Restart_KeepsError ==
  /\ FeedbackRendered
  /\ IF RestartDisabled
     THEN Ignored("restart", -1)
     ELSE /\ gameStarted' = FALSE
          /\ question' = Null
          /\ selectedIndex' = Null
          /\ answerResult' = Null
          /\ gameOver' = FALSE
          /\ error' = error
          /\ sawQuestion404' = FALSE
          /\ realGraded' = FALSE
          /\ ev' = Ev("restart", "local", -1, NoError, Undefined)
          /\ UNCHANGED <<view, playerName, score, questionNumber, totalQuestions,
                         loading, usingMockBackend, pending>>
  /\ PlayFrame

\* the Restart button with an added setUsingMockBackend(false)
Restart_ClearsMock ==
  /\ FeedbackRendered
  /\ IF RestartDisabled
     THEN Ignored("restart", -1)
     ELSE /\ gameStarted' = FALSE
          /\ question' = Null
          /\ selectedIndex' = Null
          /\ answerResult' = Null
          /\ gameOver' = FALSE
          /\ error' = ""
          /\ sawQuestion404' = FALSE
          /\ realGraded' = FALSE
          /\ ev' = Ev("restart", "local", -1, NoError, Undefined)
          /\ usingMockBackend' = FALSE
          /\ UNCHANGED <<view, playerName, score, questionNumber, totalQuestions,
                         loading, pending>>
  /\ PlayFrame

\* the Restart button with an added setScore(0) and setQuestionNumber(0)
Restart_ResetsScore ==
  /\ FeedbackRendered
  /\ IF RestartDisabled
     THEN Ignored("restart", -1)
     ELSE /\ gameStarted' = FALSE
          /\ question' = Null
          /\ selectedIndex' = Null
          /\ answerResult' = Null
          /\ gameOver' = FALSE
          /\ error' = ""
          /\ sawQuestion404' = FALSE
          /\ realGraded' = FALSE
          /\ ev' = Ev("restart", "local", -1, NoError, Undefined)
          /\ score' = 0
          /\ questionNumber' = 0
          /\ UNCHANGED <<view, playerName, totalQuestions, loading,
                         usingMockBackend, pending>>
  /\ PlayFrame

\* onClick of the Restart button
Restart ==
  /\ FeedbackRendered
  /\ IF RestartDisabled
     THEN Ignored("restart", -1)
     ELSE /\ gameStarted' = FALSE
          /\ question' = Null
          /\ selectedIndex' = Null
          /\ answerResult' = Null
          /\ gameOver' = FALSE
          /\ error' = ""
          /\ sawQuestion404' = FALSE
          /\ realGraded' = FALSE
          /\ ev' = Ev("restart", "local", -1, NoError, Undefined)
          /\ UNCHANGED <<view, playerName, score, questionNumber, totalQuestions,
                         loading, usingMockBackend, pending>>
  /\ PlayFrame

SetView ==
  \E v \in {"play", "admin"} :
    /\ v # view
    /\ view' = v
    /\ ev' = Ev("view", "local", -1, NoError, Undefined)
    /\ UNCHANGED <<playerName, session, loading, error, usingMockBackend,
                   pending, history>>
    /\ PlayFrame

SetPlayerName ==
  \E name \in PlayerNames :
    /\ view = "play" /\ ~gameStarted
    /\ name # playerName
    /\ playerName' = name
    /\ ev' = Ev("name", "local", -1, NoError, Undefined)
    /\ UNCHANGED <<view, session, loading, error, usingMockBackend,
                   pending, history>>
    /\ PlayFrame

SelectAnswer == \E idx \in 0..3 : handleSelectAnswer(idx)

\* handleNext called while no feedback is shown (the Next button is not
\* rendered then): if (!answerResult || loading) return;
NextWithoutFeedback ==
  /\ view = "play" /\ gameStarted /\ question # Null /\ ~showFeedback
  /\ Ignored("next", -1)
  /\ PlayFrame

----------------------------------------------------------------------------
(* The admin console.  Its state is independent of the gameplay state. *)

\* what every step of the admin console leaves alone
AdminFrame ==
  UNCHANGED <<playerName, session, loading, error, usingMockBackend, pending,
              history, script, mockAnswers, mockVars, api, normVars>>

\* at most this many admin handler instances await a response
MaxAdminInFlight == 2

\* the records of a question list; an id is read as
\* q.id || q.question_id || q.questionId
Item(id, question_id, questionId) ==
  [id |-> id, question_id |-> question_id, questionId |-> questionId]

ItemId(q) == OrStr(q.id, OrStr(q.question_id, q.questionId))

ItemA == Item(Some("a"), Undefined, Undefined)
ItemB == Item(Undefined, Some("b"), Undefined)
ItemNoId == Item(Some(""), Undefined, Undefined)

\* a 2xx body of GET /admin/questions: null, a bare array, or an object
\* that may carry the array as items or as questions
ListBody(array, items, questions) ==
  Some([array |-> array, items |-> items, questions |-> questions])

ListBodies ==
  << ListBody(Some(<< >>), Undefined, Undefined),
     ListBody(Some(<<ItemA, ItemNoId>>), Undefined, Undefined),
     ListBody(Undefined, Some(<<ItemB>>), Some(<<ItemA>>)),
     ListBody(Undefined, Undefined, Some(<<ItemA, ItemB>>)),
     ListBody(Undefined, Undefined, Undefined),
     Null >>

\* Array.isArray(list) ? list : (list.items || list.questions || [])
ListItems(list) ==
  IF Val(list).array # Undefined THEN Val(Val(list).array)
  ELSE Val(OrArr(Val(list).items, OrArr(Val(list).questions, Some(<< >>))))

\* reading list.items of a null body throws
NullBodyError ==
  [status |-> 0, message |-> "Cannot read properties of null (reading 'items')"]

\* the errors drawn for the admin requests
AdminErrors == {HttpError(500, "Internal Server Error"), TimeoutError}

\* useState("Choice A\nChoice B\nChoice C\nChoice D"), as its lines
FormInit ==
  [prompt |-> "", choicesText |-> <<"Choice A", "Choice B", "Choice C", "Choice D">>,
   correctIndex |-> 0, explanation |-> "", localError |-> ""]

\* what the fields of the form are set to
Prompts == {"", "  ", "Q?"}
ChoicesTexts == {<<"">>, <<"A">>, <<"A", "  ", "">>, <<"A", "B">>, <<"A", "  ", "B">>}
CorrectIndexes == -1 .. 2
Explanations == {"", "why"}

NonEmpty(s) == s # ""

\* choicesText.split("\n").map((s) => s.trim()).filter(Boolean)
parseChoices(choicesText) ==
  SelectSeq([i \in DOMAIN choicesText |-> Trim(choicesText[i])], NonEmpty)

\* the payload handed to onCreate
Payload(prompt, choices, correctIndex, explanation) ==
  [prompt |-> prompt, choices |-> choices, correctIndex |-> correctIndex,
   explanation |-> explanation]

NoPayload == Payload("", << >>, 0, Undefined)

\* explanation.trim() || undefined
OrUndefined(s) == IF s # "" THEN Some(s) ELSE Undefined

\* an admin handler instance awaiting a response.  step 1: its own request
\* (list, create, delete); step 2: the list request of the refreshAdmin()
\* it awaits.  detached: the form that issued it has been unmounted.
AdminReq(op, step, payload, detached) ==
  [op |-> op, step |-> step, payload |-> payload, detached |-> detached]

\* the checks of the Create button without the lower bound of the index
validate_NoLowerBound(f) ==
  LET choices == parseChoices(f.choicesText)
  IN  IF Trim(f.prompt) = "" THEN "Prompt is required."
      ELSE IF Len(choices) < 2 THEN "Provide at least 2 choices."
      ELSE IF f.correctIndex >= Len(choices)
           THEN "Correct index is out of range for the provided choices."
      ELSE ""

\* the checks of the Create button: the local error, "" when all pass
validate(f) ==
  LET choices == parseChoices(f.choicesText)
  IN  IF Trim(f.prompt) = "" THEN "Prompt is required."
      ELSE IF Len(choices) < 2 THEN "Provide at least 2 choices."
      ELSE IF f.correctIndex < 0 \/ f.correctIndex >= Len(choices)
           THEN "Correct index is out of range for the provided choices."
      ELSE ""

\* refreshAdmin() up to its await, as a handler instance req
refreshAdmin(req) ==
  /\ adminError' = ""
  /\ adminLoading' = TRUE
  /\ adminPending' = req

\* the Create button of AdminCreateForm, and onCreate up to its await
ClickCreate ==
  /\ view = "admin" /\ ~adminLoading
  /\ Len(adminPending) < MaxAdminInFlight
  /\ IF validate(form) # ""
     THEN /\ form' = [form EXCEPT !.localError = validate(form)]
          /\ ev' = Ev("create", "rejected", -1, NoError, Undefined)
          /\ UNCHANGED <<adminQuestions, adminLoading, adminError, adminPending>>
     ELSE /\ form' = [form EXCEPT !.localError = ""]
          /\ adminError' = ""
          /\ adminLoading' = TRUE
          /\ adminPending' = Append(adminPending,
                AdminReq("create", 1,
                   Payload(Trim(form.prompt), parseChoices(form.choicesText),
                           form.correctIndex, OrUndefined(Trim(form.explanation))),
                   FALSE))
          /\ ev' = Ev("create", "issued", -1, NoError, Undefined)
          /\ UNCHANGED adminQuestions
  /\ UNCHANGED view
  /\ AdminFrame

\* the Refresh button
ClickRefresh ==
  /\ view = "admin" /\ ~adminLoading
  /\ Len(adminPending) < MaxAdminInFlight
  /\ refreshAdmin(Append(adminPending, AdminReq("list", 1, NoPayload, FALSE)))
  /\ ev' = Ev("refresh", "issued", -1, NoError, Undefined)
  /\ UNCHANGED <<view, adminQuestions, form>>
  /\ AdminFrame

\* the Delete button of a row; the rows are rendered while not loading
ClickDelete ==
  \E k \in 1..Len(adminQuestions) :
    /\ view = "admin" /\ ~adminLoading
    /\ Len(adminPending) < MaxAdminInFlight
    /\ IF ItemId(adminQuestions[k]) = Undefined \/ Val(ItemId(adminQuestions[k])) = ""
       THEN \* if (!id) return;
            /\ ev' = Ev("delete", "ignored", k, NoError, Undefined)
            /\ UNCHANGED <<adminLoading, adminError, adminPending>>
       ELSE /\ adminError' = ""
            /\ adminLoading' = TRUE
            /\ adminPending' = Append(adminPending,
                  AdminReq("delete", 1, NoPayload, FALSE))
            /\ ev' = Ev("delete", "issued", k, NoError, Undefined)
    /\ UNCHANGED <<view, adminQuestions, form>>
    /\ AdminFrame

\* the end of the Create button's handler, after onCreate has returned:
\* setPrompt(""); setExplanation("") on the form that issued it
AfterChain(r) ==
  IF r.op = "create" /\ ~r.detached
  THEN form' = [form EXCEPT !.prompt = "", !.explanation = ""]
  ELSE UNCHANGED form

\* the list patched into the shown one
ListLoads_Patch(list) == adminQuestions' = adminQuestions \o ListItems(list)

\* setAdminQuestions(items)
ListLoads(list) == adminQuestions' = ListItems(list)

\* the response to GET /admin/questions arrives: the rest of refreshAdmin,
\* and of the create or delete handler that awaits it
AdminListDone ==
  \E i \in 1..Len(adminPending) : LET r == adminPending[i] IN
    /\ r.op = "list" \/ r.step = 2
    /\ \/ \E b \in 1..Len(ListBodies) :
            IF ListBodies[b] = Null
            THEN /\ adminError' = ErrorText(NullBodyError, "Unable to load admin questions")
                 /\ ev' = Ev("listDone", "error", b, NullBodyError, Undefined)
                 /\ UNCHANGED adminQuestions
            ELSE /\ ListLoads(ListBodies[b])
                 /\ ev' = Ev("listDone", "real", b, NoError, Undefined)
                 /\ UNCHANGED adminError
       \/ \E e \in AdminErrors :
            /\ adminError' = ErrorText(e, "Unable to load admin questions")
            /\ ev' = Ev("listDone", "error", -1, e, Undefined)
            /\ UNCHANGED adminQuestions
    /\ adminLoading' = FALSE
    /\ adminPending' = RemoveAt(adminPending, i)
    /\ AfterChain(r)
    /\ UNCHANGED view
    /\ AdminFrame

\* the response to POST /admin/questions arrives
AdminCreateDone ==
  \E i \in 1..Len(adminPending) : LET r == adminPending[i] IN
    /\ r.op = "create" /\ r.step = 1
    /\ \/ /\ refreshAdmin([adminPending EXCEPT ![i] = [r EXCEPT !.step = 2]])
          /\ ev' = Ev("createDone", "real", -1, NoError, Undefined)
          /\ UNCHANGED form
       \/ \E e \in AdminErrors :
            /\ adminError' = ErrorText(e, "Unable to create question")
            /\ adminLoading' = FALSE
            /\ adminPending' = RemoveAt(adminPending, i)
            /\ ev' = Ev("createDone", "error", -1, e, Undefined)
            /\ AfterChain(r)
    /\ UNCHANGED <<view, adminQuestions>>
    /\ AdminFrame

\* the response to DELETE /admin/questions/{id} arrives
AdminDeleteDone ==
  \E i \in 1..Len(adminPending) : LET r == adminPending[i] IN
    /\ r.op = "delete" /\ r.step = 1
    /\ \/ /\ refreshAdmin([adminPending EXCEPT ![i] = [r EXCEPT !.step = 2]])
          /\ ev' = Ev("deleteDone", "real", -1, NoError, Undefined)
       \/ \E e \in AdminErrors :
            /\ adminError' = ErrorText(e, "Unable to delete question")
            /\ adminLoading' = FALSE
            /\ adminPending' = RemoveAt(adminPending, i)
            /\ ev' = Ev("deleteDone", "error", -1, e, Undefined)
    /\ UNCHANGED <<view, adminQuestions, form>>
    /\ AdminFrame

\* the Play and Admin buttons, with the effect on view: entering the admin
\* view calls refreshAdmin(); AdminCreateForm is mounted anew, and the
\* handlers of the unmounted form keep running
Detach(seq) == [i \in DOMAIN seq |-> [seq[i] EXCEPT !.detached = TRUE]]

SwitchView ==
  \E v \in {"play", "admin"} :
    /\ v # view
    /\ view' = v
    /\ form' = FormInit
    /\ IF v = "admin"
       THEN /\ Len(adminPending) < MaxAdminInFlight
            /\ refreshAdmin(Append(Detach(adminPending),
                                   AdminReq("list", 1, NoPayload, FALSE)))
       ELSE /\ adminPending' = Detach(adminPending)
            /\ UNCHANGED <<adminLoading, adminError>>
    /\ ev' = Ev("view", "local", -1, NoError, Undefined)
    /\ UNCHANGED adminQuestions
    /\ AdminFrame

\* the inputs of the form, enabled while not loading
EditForm(f) ==
  /\ view = "admin" /\ ~adminLoading
  /\ f # form
  /\ form' = f
  /\ ev' = Ev("edit", "local", -1, NoError, Undefined)
  /\ UNCHANGED <<view, adminQuestions, adminLoading, adminError, adminPending>>
  /\ AdminFrame

SetPrompt == \E p \in Prompts : EditForm([form EXCEPT !.prompt = p])
SetChoicesText == \E c \in ChoicesTexts : EditForm([form EXCEPT !.choicesText = c])
SetCorrectIndex == \E n \in CorrectIndexes : EditForm([form EXCEPT !.correctIndex = n])
SetExplanation == \E x \in Explanations : EditForm([form EXCEPT !.explanation = x])

----------------------------------------------------------------------------
(* One invocation of apiRequest(path, {method, body, signal, timeoutMs}) *)

\* the response texts drawn, and JSON.parse of each: a payload is null,
\* a string, or an object whose detail is absent, a string or an array of
\* records with an optional msg
JsonPayload(type, str, detail, detailMsgs) ==
  Some([type |-> type, str |-> str, detail |-> detail, detailMsgs |-> detailMsgs])

ResponseTexts ==
  {"", "{\"ok\":true}", "{\"detail\":\"Not Found\"}",
   "{\"detail\":[{\"msg\":\"bad\"},{}]}", "\"oops\"", "<html>"}

IsJson(text) == text \notin {"", "<html>"}

JSONparse(text) ==
  CASE text = "{\"ok\":true}" -> JsonPayload("object", "", Undefined, Undefined)
    [] text = "{\"detail\":\"Not Found\"}" ->
         JsonPayload("object", "", Some("Not Found"), Undefined)
    [] text = "{\"detail\":[{\"msg\":\"bad\"},{}]}" ->
         JsonPayload("object", "", Undefined, Some(<<Some("bad"), Undefined>>))
    [] text = "\"oops\"" -> JsonPayload("string", "oops", Undefined, Undefined)

\* parseJsonSafe(resp)
parseJsonSafe(text) ==
  IF text = "" THEN Null
  ELSE IF IsJson(text) THEN JSONparse(text)
  ELSE JsonPayload("object", "", Some(text), Undefined)

\* payload.detail.map((d) => d?.msg || "Invalid request").join(", ")
RECURSIVE JoinMsgs(_)
JoinMsgs(msgs) ==
  IF msgs = << >> THEN ""
  ELSE LET head == Val(OrStr(Head(msgs), Some("Invalid request")))
       IN  IF Len(msgs) = 1 THEN head ELSE head \o ", " \o JoinMsgs(Tail(msgs))

toErrorMessage(payload) ==
  IF payload = Null \/ (Val(payload).type = "string" /\ Val(payload).str = "")
  THEN "Request failed"
  ELSE IF Val(payload).type = "string" THEN Val(payload).str
  ELSE IF Val(payload).detail # Undefined THEN Val(Val(payload).detail)
  ELSE IF Val(payload).detailMsgs # Undefined THEN JoinMsgs(Val(Val(payload).detailMsgs))
  ELSE "Request failed"

Statuses == {200, 204, 404, 500}

\* resp.ok
Ok(status) == status >= 200 /\ status <= 299

\* the outcome of the invocation: kind "none" (not settled), "value"
\* (resolved with payload) or "error" (rejected)
Outcome(kind, payload, status, message) ==
  [kind |-> kind, payload |-> payload, status |-> status, message |-> message]

NoOutcome == Outcome("none", Null, 0, "")

\* new AbortSignal.any(...): AbortSignal.any is not a constructor
NotAConstructor == Outcome("error", Null, 0, "AbortSignal.any is not a constructor")

ApiIdle ==
  [pc |-> "idle", hasSignal |-> FALSE, signalAborted |-> FALSE, hasBody |-> FALSE,
   contentType |-> FALSE, timer |-> "none", fetches |-> 0, status |-> 0,
   text |-> "", outcome |-> NoOutcome]

\* what every step of apiRequest leaves alone
ApiFrame ==
  UNCHANGED <<view, playerName, session, loading, error, usingMockBackend,
              pending, history, ev, script, mockAnswers, adminVars, mockVars, normVars>>

\* the body argument: undefined, an object, or a falsy value such as ""
Bodies == {"undefined", "object", "falsy"}

\* apiRequest up to its await of fetch(url, init)
ApiCall ==
  \E hasSignal \in BOOLEAN, body \in Bodies :
    /\ api.pc = "idle"
    /\ IF hasSignal
       THEN \* the construction of mergedSignal throws, outside the try
            api' = [api EXCEPT !.pc = "done", !.hasSignal = TRUE, !.timer = "armed",
                               !.outcome = NotAConstructor]
       ELSE api' = [api EXCEPT !.pc = "fetching", !.timer = "armed",
                               !.contentType = (body = "object"),
                               !.hasBody = (body # "undefined"),
                               !.fetches = api.fetches + 1]
    /\ ApiFrame

\* fetch resolves with a response
ApiResponds ==
  \E status \in Statuses, text \in ResponseTexts :
    /\ api.pc = "fetching"
    /\ api' = [api EXCEPT !.pc = "reading", !.status = status, !.text = text]
    /\ ApiFrame

\* the rest of the try block once resp.text() has resolved
ApiSettles ==
  LET payload == parseJsonSafe(api.text)
  IN  IF ~Ok(api.status)
      THEN Outcome("error", payload, api.status, toErrorMessage(payload))
      ELSE Outcome("value", payload, api.status, "")

\* resp.text() resolves; finally clearTimeout(timeout)
ApiReads ==
  /\ api.pc = "reading"
  /\ api' = [api EXCEPT !.pc = "done", !.outcome = ApiSettles,
                        !.timer = IF api.timer = "armed" THEN "cleared" ELSE api.timer]
  /\ ApiFrame

\* fetch rejects: the network failed
ApiNetworkFails ==
  /\ api.pc = "fetching"
  /\ api' = [api EXCEPT !.pc = "done", !.timer = "cleared",
                        !.outcome = Outcome("error", Null, 0, "Failed to fetch")]
  /\ ApiFrame

\* the timer fires: controller.abort(new Error("Request timed out")) rejects
\* the pending fetch or body read with that reason
ApiTimerFires ==
  /\ api.timer = "armed"
  /\ IF api.pc \in {"fetching", "reading"}
     THEN api' = [api EXCEPT !.pc = "done", !.timer = "fired",
                             !.outcome = Outcome("error", Null, 0, TimeoutError.message)]
     ELSE api' = [api EXCEPT !.timer = "fired"]
  /\ ApiFrame

\* the caller aborts the signal it passed
ApiSignalAborts ==
  /\ api.hasSignal /\ ~api.signalAborted
  /\ api' = [api EXCEPT !.signalAborted = TRUE]
  /\ ApiFrame

----------------------------------------------------------------------------
(* Applications of mockGetQuestion to the integers of a range *)

MaxPos == 30

MockFrame ==
  UNCHANGED <<view, playerName, session, loading, error, usingMockBackend,
              pending, history, ev, script, mockAnswers, adminVars, api, normVars>>

CallMockGetQuestion ==
  /\ getRet = Null
  /\ getRet' = Some(mockGetQuestion(getArg))
  /\ UNCHANGED getArg
  /\ MockFrame

NextArgument ==
  \E n \in (0 - MaxPos)..MaxPos :
    /\ getRet # Null
    /\ getArg' = n
    /\ getRet' = Null
    /\ MockFrame

----------------------------------------------------------------------------
AdminInit ==
  /\ adminQuestions = << >>
  /\ adminLoading = FALSE
  /\ adminError = ""
  /\ adminPending = << >>
  /\ form = FormInit

----------------------------------------------------------------------------
(* The reading of a question response, for every combination of spellings *)

RawQuestions ==
  [id : {Undefined, Some(""), Some("a")},
   question_id : {Undefined, Some(""), Some("b")},
   questionId : {Undefined, Some("c")},
   prompt : {Undefined, Some(""), Some("P")},
   question : {Undefined, Some("Q")},
   text : {Undefined, Some("T")},
   choices : {Undefined, Some(<< >>), Some(BackendChoices)},
   options : {Undefined, Some(<<"X", "Y">>)},
   total_questions : {Undefined, Some(0), Some(5)},
   totalQuestions : {Undefined, Some(7)},
   question_number : {Undefined, Some(0), Some(2)},
   questionNumber : {Undefined, Some(3)}]

NormFrame ==
  UNCHANGED <<view, playerName, loading, error, usingMockBackend, pending,
              history, ev, script, mockAnswers, adminVars, mockVars, api, raw>>

\* handleStartGame reads the response raw
StartNormalizes ==
  /\ readBy = "none"
  /\ StartLoads(raw)
  /\ readBy' = "start"
  /\ NormFrame

\* handleNext reads the response raw
NextNormalizes ==
  /\ readBy \in {"none", "start"}
  /\ NextLoads(Req("next", 1, -1, "", 0, questionNumber, totalQuestions), raw)
  /\ readBy' = "next"
  /\ UNCHANGED <<gameStarted, score>>
  /\ NormFrame

----------------------------------------------------------------------------
OtherInit ==
  /\ AdminInit
  /\ getArg = 1 /\ getRet = Null
  /\ api = ApiIdle
  /\ readBy = "none"

Init ==
  /\ view = "play"
  /\ PlayInit
  /\ OtherInit
  /\ raw = mockGetQuestion(1)

Next ==
  \/ ClickStart
  \/ ClickPlayAgain
  \/ StartSessionDone
  \/ StartQuestionDone
  \/ SelectAnswer
  \/ SubmitDone
  \/ handleNext
  \/ NextWithoutFeedback
  \/ NextDone
  \/ Restart
  \/ SetView
  \/ SetPlayerName

Spec == Init /\ [][Next]_vars

\* the admin console
NextAdmin ==
  \/ SwitchView
  \/ ClickRefresh
  \/ ClickCreate
  \/ ClickDelete
  \/ AdminListDone
  \/ AdminCreateDone
  \/ AdminDeleteDone
  \/ SetPrompt

SpecAdmin == Init /\ [][NextAdmin]_vars

\* the create form, in the admin view once a list has been loaded
InitForm ==
  /\ view = "admin"
  /\ PlayInit
  /\ adminQuestions \in {ListItems(ListBodies[b]) : b \in {1, 2}}
  /\ adminLoading = FALSE
  /\ adminError = ""
  /\ adminPending = << >>
  /\ form = FormInit
  /\ getArg = 1 /\ getRet = Null
  /\ api = ApiIdle
  /\ raw = mockGetQuestion(1) /\ readBy = "none"

NextForm ==
  \/ SetPrompt
  \/ SetChoicesText
  \/ SetCorrectIndex
  \/ SetExplanation
  \/ ClickCreate
  \/ AdminCreateDone
  \/ AdminListDone

SpecForm == InitForm /\ [][NextForm]_vars

\* apiRequest
NextApi ==
  \/ ApiCall
  \/ ApiResponds
  \/ ApiReads
  \/ ApiNetworkFails
  \/ ApiTimerFires
  \/ ApiSignalAborts

SpecApi == Init /\ [][NextApi]_vars

\* a player who keeps selecting and advancing while every call to the
\* backend fails as endpoint-missing, so that the mock provider serves it
MockStep == ev'.out \notin {"real", "error"}

MockStartSessionDone == StartSessionDone /\ MockStep
MockStartQuestionDone == StartQuestionDone /\ MockStep
MockSubmitDone == SubmitDone /\ MockStep
MockNextDone == NextDone /\ MockStep

NextMockPlay ==
  \/ ClickStart
  \/ ClickPlayAgain
  \/ MockStartSessionDone
  \/ MockStartQuestionDone
  \/ SelectAnswer
  \/ MockSubmitDone
  \/ handleNext
  \/ MockNextDone

\* every request is settled (at the latest by its timer), and the player
\* presses Start, then a choice and Next whenever they are offered
FairMockPlay ==
  /\ WF_vars(ClickStart)
  /\ WF_vars(MockStartSessionDone)
  /\ WF_vars(MockStartQuestionDone)
  /\ WF_vars(SelectAnswer)
  /\ WF_vars(MockSubmitDone)
  /\ WF_vars(handleNext)
  /\ WF_vars(MockNextDone)

SpecMockPlay == Init /\ [][NextMockPlay]_vars /\ FairMockPlay

\* the reading of question responses
InitNormalize ==
  /\ view = "play"
  /\ PlayInit
  /\ OtherInit
  /\ raw \in RawQuestions

NextNormalize ==
  \/ StartNormalizes
  \/ NextNormalizes

SpecNormalize == InitNormalize /\ [][NextNormalize]_vars

\* mockGetQuestion
NextMock ==
  \/ CallMockGetQuestion
  \/ NextArgument

SpecMock == Init /\ [][NextMock]_vars

----------------------------------------------------------------------------
(* Vocabulary of the properties *)

Succeeded(e) == e.out \in {"real", "mock"}
UserOps == {"start", "playAgain", "select", "next", "restart"}
CompletionOps == {"startSession", "startQuestion", "submitDone", "nextDone"}
LastRequest(seq) == seq[Len(seq)]

\* an event that puts another question (or none) on the screen
LoadsQuestion(e) ==
  \/ e.op \in {"startQuestion", "nextDone"} /\ Succeeded(e)
  \/ e.op = "startSession" /\ e.out = "mock"
  \/ e.op = "restart" /\ e.out = "local"

----------------------------------------------------------------------------
\* C1 (as stated): once set, the selected index keeps its value until a new
\* question is loaded; no other event, the failure of the answer request
\* included, changes it.
C1_SelectionLockedUntilNewQuestion ==
  [][(selectedIndex # Null /\ selectedIndex' # selectedIndex) => LoadsQuestion(ev')]_vars

\* C1 (amended): once set, the selected index never changes to another index;
\* it is cleared only when a new question is loaded (a successful advance, a
\* start, the Restart button) or when the answer request fails.
C1_SelectionLock ==
  [][(selectedIndex # Null /\ selectedIndex' # selectedIndex) =>
       /\ selectedIndex' = Null
       /\ \/ LoadsQuestion(ev')
          \/ ev'.op = "submitDone" /\ ev'.out = "error"]_vars

C1_Witness ==
  /\ selectedIndex # Null /\ answerResult # Null /\ ~loading
  /\ ev.op = "select" /\ ev.out = "ignored"

\* C2: once GET /game/question has answered 404 in a session, every later
\* get-question and submit-answer of the session is answered by the mock
\* provider.
C2_StickyMock ==
  (sawQuestion404 /\ ev.op \in {"startQuestion", "submitDone", "nextDone"})
     => ev.out = "mock"

\* C3: a failed gameplay call is answered by the mock provider, and the
\* mock-mode flag set, exactly when the error's status is 404 or 405 or its
\* message has a network-failure/CORS pattern; any other error is shown, the
\* mock provider does not act and no request is retried.
C3_FallbackClassification ==
  [][(ev'.op \in CompletionOps /\ ev'.err # NoError) =>
       LET e == ev'.err
           missing == \/ e.status \in {404, 405}
                      \/ e.message \in {"Failed to fetch",
                                        "NetworkError when attempting to fetch resource.",
                                        "Blocked by cors policy"}
       IN  /\ (ev'.out = "mock") <=> missing
           /\ (ev'.out = "error") <=> ~missing
           /\ missing => /\ usingMockBackend'
                         /\ error' = error
           /\ ~missing => /\ error' = e.message
                          /\ usingMockBackend' = usingMockBackend
                          /\ ~loading'
                          /\ Len(pending') = Len(pending) - 1
                          /\ UNCHANGED <<gameStarted, question, answerResult, score,
                                         questionNumber, totalQuestions, gameOver>>]_vars

C3_Witness ==
  /\ ev.op = "submitDone" /\ ev.out = "mock" /\ ev.err.status = 405
  /\ usingMockBackend /\ answerResult # Null /\ error = ""

\* C4: at most one gameplay request is in flight, the loading flag is set
\* exactly while it is, and while it is set every start, select, advance,
\* restart and play-again is ignored, so that only the completion of the
\* request changes the session state.
C4_SingleFlight ==
  [][/\ Len(pending') <= 1
     /\ loading' <=> (pending' # << >>)
     /\ (loading /\ ev'.op \in UserOps) =>
           /\ ev'.out = "ignored"
           /\ UNCHANGED <<session, pending, loading, error>>
     /\ (loading /\ session' # session) => ev'.op \in CompletionOps]_vars

C4_Witness ==
  /\ loading /\ Len(pending) = 1 /\ view = "play"
  /\ ev.op \in UserOps /\ ev.out = "ignored"

\* C5: a selection is ignored when one exists already, a request is in
\* flight, the game is over or no question is loaded; otherwise it records the
\* index and issues exactly one submit-answer request for the current question
\* id and that index.
C5_SelectRule ==
  [][ev'.op = "select" =>
       IF question = Null \/ loading \/ selectedIndex # Null \/ gameOver
       THEN /\ ev'.out = "ignored"
            /\ UNCHANGED <<session, pending, loading, error, usingMockBackend>>
       ELSE /\ ev'.out = "issued"
            /\ selectedIndex' = Some(ev'.idx)
            /\ loading'
            /\ Len(pending') = Len(pending) + 1
            /\ LastRequest(pending').op = "answer"
            /\ LastRequest(pending').qid = Val(question).id
            /\ LastRequest(pending').idx = ev'.idx
            /\ UNCHANGED <<gameStarted, question, answerResult, score,
                           questionNumber, totalQuestions, gameOver>>]_vars

C5_Witness ==
  /\ ev.op = "select" /\ ev.out = "issued" /\ selectedIndex = Some(ev.idx)
  /\ Len(pending) = 1 /\ pending[1].op = "answer" /\ pending[1].idx = ev.idx

C7_CompleteOnlyByAdvance ==
  [][(~gameOver /\ gameOver') => ev'.op = "next"]_vars

\* C7 (amended): the game-over flag becomes true when an answer result
\* flagged game-over is received, and only then; a result not flagged leaves
\* it false; an advance taken after a flagged result changes nothing and
\* issues no request.
C7_CompleteOnResult ==
  [][/\ (~gameOver /\ gameOver') =>
          /\ ev'.op = "submitDone" /\ Succeeded(ev')
          /\ Val(answerResult').gameOver
     /\ (ev'.op = "submitDone" /\ Succeeded(ev')) =>
          gameOver' = Val(answerResult').gameOver
     /\ (ev'.op = "next" /\ ev'.out = "local") =>
          /\ gameOver /\ gameOver'
          /\ UNCHANGED <<session, pending, loading, error>>]_vars

C7_Witness ==
  /\ gameOver /\ ev.op = "submitDone" /\ Succeeded(ev)
  /\ answerResult # Null /\ Val(answerResult).gameOver

\* C8 (as stated): after every start that completes successfully the
\* question number is 1 and the score 0, with no selection, no result and
\* the game-over flag false.
C8_StartGivesQuestionOne ==
  (ev.op = "startQuestion" /\ Succeeded(ev)) =>
     /\ questionNumber = 1 /\ score = 0
     /\ selectedIndex = Null /\ answerResult = Null /\ ~gameOver

\* C8 (amended): after every start that completes successfully the score
\* is 0, with no selection, no result and the game-over flag false, and the
\* question number is the one the get-question response reports, 1 when it
\* reports none or when the mock provider answers.
C8_StartResets ==
  (ev.op = "startQuestion" /\ Succeeded(ev)) =>
     /\ score = 0 /\ gameStarted /\ question # Null
     /\ selectedIndex = Null /\ answerResult = Null /\ ~gameOver
     /\ questionNumber = IF ev.out = "mock" \/ ev.rqn = Undefined THEN 1 ELSE Val(ev.rqn)

C8_Witness ==
  /\ ev.op = "startQuestion" /\ ev.out = "real" /\ ev.rqn = Some(2)
  /\ questionNumber = 2 /\ score = 0 /\ gameStarted

\* C9: whenever the start action fails the controller is in Idle (game not
\* started, no question shown) with a non-empty error message.
C9_FailedStartIsIdle ==
  (ev.op \in {"startSession", "startQuestion"} /\ ev.out = "error") =>
     /\ ~gameStarted /\ question = Null /\ error # ""

\* C10: in a session whose answers are graded by the mock provider alone,
\* the score is between 0 and the total question count after every grading.
C10_MockScoreWithinTotal ==
  (ev.op = "submitDone" /\ ev.out = "mock" /\ ~realGraded)
     => score \in 0..totalQuestions

\* the mock answers to a submission of the shown question
MockGraded(e) == e.op = "submitDone" /\ e.out = "mock"



\* C11: for a mock question and any selected index, the mock grading
\* returns correct = true and the previous score + 1 when the index is the
\* question's stored correct index, correct = false and the score unchanged
\* otherwise, and always the stored correct index.
C11_MockGrading ==
  [][(MockGraded(ev') /\ question # Null /\ Val(question).id \in MockIds) =>
       LET stored == StoredCorrectIndex(Val(question).id)
           res    == Val(answerResult')
       IN  /\ res.correctIndex = stored
           /\ IF ev'.idx = stored
              THEN res.correct /\ res.score = score + 1 /\ score' = score + 1
              ELSE ~res.correct /\ res.score = score /\ score' = score]_vars

C11_Witness ==
  /\ MockGraded(ev) /\ Val(question).id = "q2" /\ ev.idx = 1
  /\ Val(answerResult).correct /\ score = 2

\* C12 (as stated): the game-over flag of a mock grading is true exactly
\* when the question number at submission equals the mock question count.
C12_GameOverAtExactlyLast ==
  [][MockGraded(ev') =>
       (Val(answerResult').gameOver <=> questionNumber = MockLen)]_vars

\* C12 (amended): the game-over flag of a mock grading is true exactly
\* when the question number at submission is at least the mock question
\* count, so also for a number above it.
C12_GameOverFromLast ==
  [][MockGraded(ev') =>
       /\ Val(answerResult').gameOver <=> questionNumber >= MockLen
       /\ gameOver' = Val(answerResult').gameOver]_vars

C12_Witness ==
  /\ MockGraded(ev) /\ questionNumber = MockLen + 1
  /\ Val(answerResult).gameOver /\ gameOver

\* a start has failed: either of its two steps ended in a shown error
StartFailed(e) == e.op \in {"startSession", "startQuestion"} /\ e.out = "error"

\* C15: after a failed start the loading flag is cleared and the control
\* that starts a game (Start, or Play Again on the final screen) is on the
\* screen again, not disabled by the loading flag.
C15_FailedStartReenablesStart ==
  (StartFailed(ev) /\ view = "play") =>
     /\ ~loading
     /\ StartRendered \/ PlayAgainRendered

\* the play view shows a started game with no request in flight
StartedAndQuiet == view = "play" /\ gameStarted /\ question # Null /\ ~loading

\* C16 (as stated): the restart action is available in every started
\* gameplay state (Playing, Answered, Complete) with no request in flight.
C16_RestartAvailableWhenStarted ==
  StartedAndQuiet => (FeedbackRendered /\ ~RestartDisabled)

\* C16 (amended): with no request in flight the restart action is available
\* exactly in the started states that show an answer result (Answered and
\* Complete, not Playing), and taking it moves the controller to Idle with
\* question, selection, result and error cleared and the game-over flag false.
C16_RestartFromFeedback ==
  [][/\ (view = "play" /\ gameStarted /\ ~loading) =>
           ((FeedbackRendered /\ ~RestartDisabled) <=> answerResult # Null)
     /\ (gameOver /\ view = "play" /\ ~loading) => (FeedbackRendered /\ ~RestartDisabled)
     /\ (ev'.op = "restart" /\ ev'.out = "local") =>
           /\ FeedbackRendered /\ ~loading
           /\ ~gameStarted' /\ question' = Null /\ selectedIndex' = Null
           /\ answerResult' = Null /\ ~gameOver' /\ error' = ""
           /\ ~loading' /\ pending' = << >>]_vars

C16_Witness ==
  /\ ev.op = "restart" /\ ev.out = "local" /\ ~gameStarted /\ question = Null
  /\ score > 0 /\ error = ""

\* the position n clamped to the range of the three mock questions
ClampedPosition(n) == IF n < 1 THEN 1 ELSE IF n > 3 THEN 3 ELSE n

\* C13: mockGetQuestion(n) returns the mock question at position
\* clamp(n, 1, 3) for every integer n, with that position as its
\* question_number and 3 as its total_questions.
C13_MockQuestionAtClampedPosition ==
  getRet # Null =>
    LET p == ClampedPosition(getArg)
        q == Val(getRet)
    IN  /\ q.id = Some(MOCK_QUESTIONS[p].id)
        /\ q.prompt = Some(MOCK_QUESTIONS[p].prompt)
        /\ q.choices = Some(MOCK_QUESTIONS[p].choices)
        /\ q.question_number = Some(p)
        /\ q.total_questions = Some(3)

C13_Witness ==
  /\ getArg = 0 /\ getRet # Null
  /\ Val(getRet).id = Some("q1") /\ Val(getRet).question_number = Some(1)

\* C14 (as stated): once the script has started, shown question 1, taken a
\* wrong pick, advanced to question 2, taken the right pick and performed
\* the advance action twice more, the final screen is shown: game over
\* with a final score of 1 of 3.
C14_TwoAdvancesReachFinalScreen ==
  script = 12 => (gameOver /\ score = 1 /\ totalQuestions = 3)

\* C14 (amended): along the script question 1 of 3 is shown, the wrong pick
\* is graded with the stored correct index, question 2 of 3 follows, the
\* right pick makes the score 1, the first further advance shows question 3
\* of 3 and the second one does nothing; the final screen with score 1 of 3
\* is reached only once question 3 has been answered (wrongly), and a
\* further advance stays there.
C14_MockScript ==
  /\ script = 3 => /\ Val(question).id = "q1" /\ questionNumber = 1
                   /\ totalQuestions = 3 /\ score = 0 /\ ~gameOver
  /\ script = 5 => /\ ~Val(answerResult).correct
                   /\ Val(answerResult).correctIndex = StoredCorrectIndex("q1")
                   /\ score = 0 /\ ~gameOver
  /\ script = 7 => /\ Val(question).id = "q2" /\ questionNumber = 2
                   /\ totalQuestions = 3 /\ answerResult = Null
  /\ script = 9 => Val(answerResult).correct /\ score = 1 /\ ~gameOver
  /\ script \in {11, 12} =>
        /\ Val(question).id = "q3" /\ questionNumber = 3 /\ totalQuestions = 3
        /\ answerResult = Null /\ selectedIndex = Null /\ score = 1 /\ ~gameOver
  /\ script = 12 => ev.out = "ignored"
  /\ script \in {14, 15} =>
        /\ gameOver /\ Val(answerResult).gameOver
        /\ score = 1 /\ totalQuestions = 3
  /\ script = 15 => ev.out = "local"

C14_Witness ==
  /\ script = 15 /\ gameOver /\ score = 1 /\ totalQuestions = 3
  /\ Val(question).id = "q3"

\* the number of lines of the choices text that are not blank
NonEmptyLines(choicesText) ==
  Cardinality({i \in DOMAIN choicesText : choicesText[i] \notin {"", "  "}})

PromptMissing(f) == f.prompt \in {"", "  "}
TooFewChoices(f) == NonEmptyLines(f.choicesText) < 2
IndexOutOfRange(f) ==
  f.correctIndex < 0 \/ f.correctIndex >= NonEmptyLines(f.choicesText)

\* C17: a create attempt with a blank prompt, with fewer than 2 non-blank
\* choice lines or with a correct index outside [0, number of choices) sets
\* the corresponding local error, does not call onCreate and issues no
\* request; a create request is sent only when all three checks pass.
C17_CreateValidation ==
  [][ev'.op = "create" =>
       IF PromptMissing(form) \/ TooFewChoices(form) \/ IndexOutOfRange(form)
       THEN /\ ev'.out = "rejected"
            /\ form'.localError =
                 IF PromptMissing(form) THEN "Prompt is required."
                 ELSE IF TooFewChoices(form) THEN "Provide at least 2 choices."
                 ELSE "Correct index is out of range for the provided choices."
            /\ UNCHANGED <<adminPending, adminLoading, adminError, adminQuestions>>
       ELSE /\ ev'.out = "issued"
            /\ form'.localError = ""
            /\ Len(adminPending') = Len(adminPending) + 1
            /\ LastRequest(adminPending').op = "create"
            /\ LastRequest(adminPending').step = 1
            /\ adminLoading']_vars

C17_Witness ==
  /\ ev.op = "create" /\ ev.out = "rejected"
  /\ form.prompt = "Q?" /\ NonEmptyLines(form.choicesText) = 2
  /\ form.correctIndex = 0 - 1
  /\ form.localError = "Correct index is out of range for the provided choices."
  /\ adminPending = << >> /\ ~adminLoading

\* C18: at most one admin request chain is in flight at a time, and the
\* admin-loading flag is true while any admin request is outstanding.
C18_AdminSerialized ==
  /\ Len(adminPending) <= 1
  /\ adminPending # << >> => adminLoading

\* the handler instances that await the response of a list request
AwaitingList(seq) ==
  Cardinality({i \in DOMAIN seq : seq[i].op = "list" \/ seq[i].step = 2})

CreateOrDeleteEnded(e) == e.op \in {"createDone", "deleteDone"}

\* C19 (as stated): when a create or delete request ends, whether it
\* succeeded or failed, a request for the full list is issued.
C19_ListAfterEveryCreateOrDelete ==
  [][CreateOrDeleteEnded(ev') =>
       AwaitingList(adminPending') = AwaitingList(adminPending) + 1]_vars

\* C19 (amended): a create or delete request that succeeds is followed at
\* once by a request for the full list, and one that fails by none: its
\* error is shown and the list kept; the shown list changes only by being
\* replaced with the items of a successful list response.
C19_ListAfterSuccess ==
  [][/\ CreateOrDeleteEnded(ev') =>
          IF ev'.out = "real"
          THEN /\ AwaitingList(adminPending') = AwaitingList(adminPending) + 1
               /\ Len(adminPending') = Len(adminPending)
               /\ adminLoading'
               /\ UNCHANGED adminQuestions
          ELSE /\ AwaitingList(adminPending') = AwaitingList(adminPending)
               /\ Len(adminPending') = Len(adminPending) - 1
               /\ adminError' = ev'.err.message
               /\ UNCHANGED adminQuestions
     /\ (ev'.op = "listDone" /\ ev'.out = "real") =>
          adminQuestions' = ListItems(ListBodies[ev'.idx])
     /\ adminQuestions' # adminQuestions =>
          (ev'.op = "listDone" /\ ev'.out = "real")]_vars

C19_Witness ==
  /\ ev.op = "createDone" /\ ev.out = "real" /\ adminLoading
  /\ adminQuestions # << >>
  /\ \E i \in DOMAIN adminPending :
       adminPending[i].op = "create" /\ adminPending[i].step = 2

\* the invocation has settled as the contract of apiRequest allows
SettledAsSpecified ==
  \/ /\ api.outcome.kind = "value" /\ Ok(api.status)
     /\ api.outcome.payload = parseJsonSafe(api.text)
  \/ /\ api.outcome.kind = "error" /\ ~Ok(api.status)
     /\ api.outcome.status = api.status
     /\ api.outcome.payload = parseJsonSafe(api.text)
     /\ api.outcome.message = toErrorMessage(api.outcome.payload)
  \/ /\ api.outcome.kind = "error"
     /\ api.outcome.message \in {"Request timed out", "Failed to fetch"}

\* C20: every invocation of apiRequest performs exactly one network call,
\* and settles with the parsed body on a success status, with an error that
\* carries status and parsed payload otherwise, or with a timeout/abort
\* error when the timer or the external signal fires first.
C20_OneCallPerInvocation ==
  api.pc = "done" => (api.fetches = 1 /\ SettledAsSpecified)

\* the value of the first spelling that is present, else the default
FirstPresent(spellings, default) ==
  IF \E i \in DOMAIN spellings : spellings[i] # Undefined
  THEN Val(spellings[CHOOSE i \in DOMAIN spellings :
              /\ spellings[i] # Undefined
              /\ \A j \in 1..(i - 1) : spellings[j] = Undefined])
  ELSE default

\* the value of the first spelling that is present and not "", else the default
FirstNonEmpty(spellings, default) ==
  FirstPresent([i \in DOMAIN spellings |->
                  IF spellings[i] = Some("") THEN Undefined ELSE spellings[i]],
               default)

ServedByMock(e, op) == e.op = op /\ e.out = "mock"

\* C22: in a session served by the mock provider alone the first question
\* is q1 with number 1, every advance raises the number by exactly 1 and
\* shows the mock question of that number, never beyond 3, the n-th answer
\* is the one to question n, and the game is over exactly with the third;
\* a player who keeps selecting and advancing reaches that game over.
C22_MockSessionRuns ==
  /\ [][mockAnswers' >= 0 =>
          /\ ServedByMock(ev', "startQuestion") =>
               /\ questionNumber' = 1 /\ Val(question').id = "q1"
               /\ mockAnswers' = 0 /\ ~gameOver'
          /\ ServedByMock(ev', "nextDone") =>
               /\ questionNumber' = questionNumber + 1
               /\ questionNumber' \in 1..3
               /\ Val(question').id = MOCK_QUESTIONS[questionNumber'].id
               /\ mockAnswers' = questionNumber
               /\ ~gameOver'
          /\ ServedByMock(ev', "submitDone") =>
               /\ Val(question).id = MOCK_QUESTIONS[questionNumber].id
               /\ mockAnswers' = questionNumber
               /\ mockAnswers' \in 1..3
               /\ gameOver' <=> mockAnswers' = 3]_vars
  /\ gameStarted ~> (gameOver /\ mockAnswers = 3)

C22_Witness ==
  /\ ServedByMock(ev, "submitDone") /\ mockAnswers = 3 /\ gameOver
  /\ Val(question).id = "q3" /\ questionNumber = 3

\* C23: the mock-mode flag is never cleared: once usingMockBackend is true
\* it is true after every step (restart, start, Play Again, a successful
\* real call, a view switch, every completion).
C23_MockFlagMonotonic == [][usingMockBackend => usingMockBackend']_vars

C23_Witness ==
  /\ usingMockBackend /\ ev.op = "startQuestion" /\ ev.out = "real"
  /\ ~sawQuestion404 /\ score = 0 /\ questionNumber = 2

\* C24: the Restart button leaves score, questionNumber, totalQuestions,
\* usingMockBackend and playerName (and the view, the loading flag and the
\* requests in flight) as they were and clears gameStarted, question,
\* selectedIndex, answerResult, gameOver and error; while the game stays
\* not started no step changes score, questionNumber or totalQuestions.
C24_RestartFrame ==
  /\ [][(ev'.op = "restart" /\ ev'.out = "local") =>
          /\ UNCHANGED <<score, questionNumber, totalQuestions,
                         usingMockBackend, playerName, view, loading, pending>>
          /\ ~gameStarted' /\ question' = Null /\ selectedIndex' = Null
          /\ answerResult' = Null /\ ~gameOver' /\ error' = ""]_vars
  /\ [][(~gameStarted /\ ~gameStarted') =>
          UNCHANGED <<score, questionNumber, totalQuestions>>]_vars

C24_Witness ==
  /\ ev.op = "restart" /\ ev.out = "local" /\ ~gameStarted
  /\ score = 2 /\ questionNumber = 3 /\ totalQuestions = 3 /\ usingMockBackend

\* C25: with no gameplay request in flight answerResult is present exactly
\* when selectedIndex is; a selectedIndex without an answerResult exists
\* only while the submit request is in flight.
C25_ResultIffSelection ==
  /\ pending = << >> => (answerResult # Null <=> selectedIndex # Null)
  /\ (selectedIndex # Null /\ answerResult = Null) =>
       /\ loading
       /\ \E i \in 1..Len(pending) : pending[i].op = "answer"
  /\ (answerResult # Null) => selectedIndex # Null

C25_Witness ==
  /\ ev.op = "submitDone" /\ ev.out = "error" /\ pending = << >>
  /\ selectedIndex = Null /\ answerResult = Null /\ question # Null

\* C26: gameOver is true only with an answerResult that is flagged gameOver;
\* it is false while the game is not started, while no question is loaded
\* and while no choice is selected.
C26_GameOverHasResult ==
  /\ gameOver => (answerResult # Null /\ Val(answerResult).gameOver)
  /\ ~gameStarted => ~gameOver
  /\ question = Null => ~gameOver
  /\ selectedIndex = Null => ~gameOver

C26_Witness ==
  /\ ev.op \in {"startSession", "startQuestion"} /\ ev.out = "error"
  /\ gameOver /\ answerResult # Null /\ Val(answerResult).gameOver

\* C27: when the request of handleNext ends in an error that is not a
\* fallback, the step changes only error and loading (and removes the
\* request): question, selectedIndex, answerResult, score, questionNumber,
\* totalQuestions and gameOver stay, the feedback stays on the screen, and
\* the number the failed request asked for is the one the next advance
\* asks for, questionNumber + 1.
C27_FailedAdvance ==
  /\ [][(ev'.op = "nextDone" /\ ev'.out = "error") =>
          /\ UNCHANGED <<session, view, playerName, usingMockBackend>>
          /\ loading /\ ~loading' /\ error' # ""
          /\ answerResult' # Null /\ selectedIndex' # Null
          /\ Len(pending) = 1 /\ pending' = << >>
          /\ nextNumber(pending[1]) = questionNumber' + 1]_vars
  /\ [][(ev'.op = "next" /\ ev'.out = "issued") =>
          nextNumber(LastRequest(pending')) = questionNumber + 1]_vars

C27_Witness ==
  /\ ev.op = "nextDone" /\ ev.out = "error" /\ ~loading /\ error # ""
  /\ answerResult # Null /\ ~Val(answerResult).gameOver /\ questionNumber = 2

====
